---- MODULE Spec2Model ----
(***************************************************************************)
(* Model of the conversion pipeline of src/src/App.tsx: the React          *)
(* component App, its state hooks, loadFFmpeg and generateGif, and the     *)
(* two buttons that invoke them.                                           *)
(*                                                                         *)
(* An async function runs atomically from one await to the next (the       *)
(* JavaScript run-to-completion rule): every action below is one such      *)
(* slice.  A continuation of an already settled promise runs in a          *)
(* microtask of the same task, so it belongs to the slice that settled     *)
(* it.  A handler reads the state hooks through the closure of the render  *)
(* in which it was created: the values loaded, file and gifUrl that an     *)
(* invocation sees are those at the click, whatever happens later.  The    *)
(* re-render that follows a state update is complete before the next user  *)
(* event, so a click sees the current state and the current disabled flags *)
(* of the buttons.                                                         *)
(*                                                                         *)
(* The engine (@ffmpeg/ffmpeg, @ffmpeg/util) is outside the repository:    *)
(* each of its calls resolves or rejects, and exec resolves with an exit   *)
(* code, as the environment chooses.                                       *)
(***************************************************************************)
EXTENDS Integers, Sequences, FiniteSets, TLC

\* Bounds of the model
MaxJobs == 2          \* generateGif invocations that pass validation
MaxPreloads == 1      \* clicks on the Preload button
MaxEdits == 2         \* changes made in the settings panel
MaxClock == 2         \* readings of Date.now() after the first

Jobs == 1..MaxJobs
Preloads == 1..MaxPreloads

VARIABLES
    loaded,       \* useState(false), line 24
    file,         \* useState<File|null>(null), line 25: TRUE iff a file is selected
    generating,   \* useState(false), line 35
    progress,     \* useState(0), line 36, in hundredths
    status,       \* useState('Load ffmpeg and ...'), line 37
    gifUrl,       \* useState<string|null>(null), line 38: 0 is null, n > 0 the n-th object URL
    created,      \* number of URL.createObjectURL calls so far
    revoked,      \* object URLs passed to URL.revokeObjectURL
    listeners,    \* 'progress' listeners registered on ffmpegRef.current
    uncaught,     \* promise rejections no handler caught
    nJobs,        \* generateGif invocations that passed validation
    job,          \* per invocation: its position, closure and history
    nPre,         \* clicks on the Preload button
    pre,          \* per Preload click: position of its loadFFmpeg call
    preset,       \* useState<PresetKey>('balanced'), line 26
    fps,          \* useState(PRESETS.balanced.fps), line 27
    width,        \* line 28
    colors,       \* line 29
    dither,       \* line 30
    startSec,     \* useState(0), line 31
    durationSec,  \* useState(5), line 32
    loopCount,    \* useState(0), line 33
    speed,        \* useState(1), line 34
    PRESETS,      \* the preset table, lines 14-18
    now,          \* the reading of Date.now()
    nEdits        \* changes made in the settings panel so far

\* Every number of the settings panel is held in thousandths: 15000 is 15,
\* 256 is 0.256.  loopCount is held as it is.

\* The settings panel, the preset table and the clock
xvars == <<preset, fps, width, colors, dither, startSec, durationSec, loopCount,
           speed, PRESETS, now, nEdits>>

vars == <<loaded, file, generating, progress, status, gifUrl, created, revoked,
          listeners, uncaught, nJobs, job, nPre, pre,
          preset, fps, width, colors, dither, startSec, durationSec, loopCount,
          speed, PRESETS, now, nEdits>>

\* PRESETS, lines 14-18
PresetTable ==
    [ultra    |-> [fps |-> 20000, width |-> 1280000, colors |-> 256000, dither |-> "sierra2_4a"],
     balanced |-> [fps |-> 15000, width |-> 960000,  colors |-> 256000, dither |-> "sierra2_4a"],
     compact  |-> [fps |-> 12000, width |-> 720000,  colors |-> 128000, dither |-> "bayer"]]

PresetKey == {"ultra", "balanced", "compact"}

\* The state hooks a generateGif invocation closes over, lines 97-127
Closure == [fps |-> fps, width |-> width, colors |-> colors, dither |-> dither,
            startSec |-> startSec, durationSec |-> durationSec,
            loopCount |-> loopCount, speed |-> speed]

NoClosure == [fps |-> 0, width |-> 0, colors |-> 0, dither |-> "none",
              startSec |-> 0, durationSec |-> 0, loopCount |-> 0, speed |-> 0]

\* Positions inside loadFFmpeg (lines 67-70): the three awaits
LoadPcs == {"coreURL", "wasmURL", "ffmpegLoad"}
\* Positions of generateGif at which an engine storage or exec call is awaited
EnginePcs == {"writeFile", "execPalette", "execRender", "readFile",
              "deleteInput", "deletePalette", "deleteOutput"}

\* cap is the closure of the invocation; the three names are << >> until
\* lines 91-93 allocate them; paletteArgs and renderArgs are << >> until the
\* exec is called and then hold the one argument list passed to it.
\* The three Date.now() calls of lines 91-93 run in one synchronous slice
\* and give one reading; a name is its prefix with that reading (the file
\* name that ends the input name is the same for every invocation here).
NewJob == [pc |-> "idle", capGifUrl |-> 0, trace |-> <<>>, failedOp |-> "none",
           paletteRc |-> -1, renderRc |-> -1, result |-> "none",
           cap |-> NoClosure, inputName |-> <<>>, paletteName |-> <<>>,
           outputName |-> <<>>, paletteArgs |-> <<>>, renderArgs |-> <<>>]

Init ==
    /\ loaded = FALSE
    /\ file = FALSE
    /\ generating = FALSE
    /\ progress = 0
    /\ status = "Load ffmpeg and drop a video to begin."
    /\ gifUrl = 0
    /\ created = 0
    /\ revoked = {}
    /\ listeners = 0
    /\ uncaught = 0
    /\ nJobs = 0
    /\ job = [j \in Jobs |-> NewJob]
    /\ nPre = 0
    /\ pre = [k \in Preloads |-> "idle"]
    /\ preset = "balanced"
    /\ fps = PresetTable.balanced.fps
    /\ width = PresetTable.balanced.width
    /\ colors = PresetTable.balanced.colors
    /\ dither = PresetTable.balanced.dither
    /\ startSec = 0
    /\ durationSec = 5000
    /\ loopCount = 0
    /\ speed = 1000
    /\ PRESETS = PresetTable
    /\ now = 0
    /\ nEdits = 0

Count(seq, x) == Cardinality({i \in DOMAIN seq : seq[i] = x})

Max(a, b) == IF a >= b THEN a ELSE b
Min(a, b) == IF a <= b THEN a ELSE b

\* Values the engine's progress event can deliver, in hundredths: <<n>> is
\* the number n/100, << >> an event without a usable number (undefined, NaN)
ProgressInputs == {<< >>, <<-50>>, <<0>>, <<50>>, <<100>>, <<150>>}

\* A variant of ClampProgress without the upper limit
ClampProgressMutant(p) == IF Len(p) = 0 THEN 0 ELSE Max(0, p[1])

\* Math.max(0, Math.min(1, p || 0)), line 64
ClampProgress(p) == IF Len(p) = 0 THEN 0 ELSE Max(0, Min(100, p[1]))

\* toFixed, line 76: a number of thousandths, not negative, rendered with two
\* decimals; the result is in hundredths
toFixed(value) == (value + 5) \div 10

\* A variant of TrimArgs without the floors of line 97
TrimArgsMutant(c) == [ss |-> toFixed(c.startSec), t |-> toFixed(c.durationSec)]

\* trimArgs, line 97: the values that follow -ss and -t
TrimArgs(c) == [ss |-> toFixed(Max(0, c.startSec)), t |-> toFixed(Max(200, c.durationSec))]

\* speedFilter, line 98: << >> is the empty string, <<v>> is ",setpts=PTS/v"
speedFilter(c) == IF c.speed = 1000 THEN << >> ELSE <<c.speed>>

\* scaleAndRate, line 99: "fps=<fps>,scale=<width>:-1:flags=lanczos<speedFilter>"
scaleAndRate(c) == [fps |-> c.fps, width |-> c.width, setpts |-> speedFilter(c)]

\* The argument list of the palette exec, lines 102-114, of an invocation
\* with record r
PaletteArgs(r) ==
    [i |-> r.inputName, trim |-> TrimArgs(r.cap), vf |-> scaleAndRate(r.cap),
     max_colors |-> Max(2000, Min(256000, r.cap.colors)), out |-> r.paletteName]

\* The argument list of the render exec, lines 117-129
RenderArgs(r) ==
    [i |-> r.inputName, trim |-> TrimArgs(r.cap), i2 |-> r.paletteName,
     lavfi |-> scaleAndRate(r.cap), dither |-> r.cap.dither,
     loop |-> r.cap.loopCount, out |-> r.outputName]

----------------------------------------------------------------------------
\* The file input, line 182
SetFile ==
    /\ \E f \in BOOLEAN : file' = f
    /\ UNCHANGED <<loaded, generating, progress, status, gifUrl, created, revoked,
                   listeners, uncaught, nJobs, job, nPre, pre>>
    /\ UNCHANGED xvars

\* The engine emits a progress event while it works; every registered
\* listener runs the same setProgress, lines 63-65
EngineBusy ==
    \/ \E j \in Jobs : job[j].pc \in {"ffmpegLoad", "execPalette", "execRender"}
    \/ \E k \in Preloads : pre[k] = "ffmpegLoad"

ProgressEvent ==
    /\ listeners > 0
    /\ EngineBusy
    /\ \E p \in ProgressInputs : progress' = ClampProgress(p)
    /\ UNCHANGED <<loaded, file, generating, status, gifUrl, created, revoked,
                   listeners, uncaught, nJobs, job, nPre, pre>>
    /\ UNCHANGED xvars

----------------------------------------------------------------------------
\* A variant of GenerateGifNoFile that raises the generating flag before it
\* looks at the file
GenerateGifNoFileMutant ==
    /\ ~file
    /\ generating' = TRUE
    /\ status' = "Choose a video file first."
    /\ UNCHANGED <<loaded, file, progress, gifUrl, created, revoked,
                   listeners, uncaught, nJobs, job, nPre, pre>>
    /\ UNCHANGED xvars

\* generateGif with no file, lines 79-82.  The Create GIF button is disabled
\* then (line 306); this is the handler invoked all the same.
GenerateGifNoFile ==
    /\ ~file
    /\ status' = "Choose a video file first."
    /\ UNCHANGED <<loaded, file, generating, progress, gifUrl, created, revoked,
                   listeners, uncaught, nJobs, job, nPre, pre>>
    /\ UNCHANGED xvars

\* catch and finally of generateGif, lines 143-148, entered from the await
\* of operation op
CatchFinally(j, op) ==
    /\ status' = "Conversion failed. Try a shorter clip or lower preset."
    /\ generating' = FALSE
    /\ job' = [job EXCEPT ![j].pc = "done", ![j].failedOp = op, ![j].result = "Failed"]

\* A variant of GenerateGif whose loadFFmpeg lacks the guard of line 60
GenerateGifMutant(j) ==
    /\ j = nJobs + 1
    /\ file
    /\ ~generating
    /\ nJobs' = j
    /\ status' = "Loading ffmpeg core (first run can take ~30MB)..."
    /\ listeners' = listeners + 1
    /\ job' = [job EXCEPT ![j].pc = "coreURL", ![j].capGifUrl = gifUrl,
                          ![j].cap = Closure,
                          ![j].trace = <<"validate", "ensureReady">>]
    /\ UNCHANGED <<loaded, file, generating, progress, gifUrl, created, revoked,
                   uncaught, nPre, pre>>
    /\ UNCHANGED xvars

\* Click on Create GIF with a file, lines 78-95 up to the first pending await.
\* The button is enabled iff file && !generating (line 306).
GenerateGif(j) ==
    /\ j = nJobs + 1
    /\ file
    /\ ~generating
    /\ nJobs' = j
    /\ IF loaded
         THEN \* loadFFmpeg returns at line 60; lines 86-95 run up to fetchFile
              /\ generating' = TRUE
              /\ progress' = 0
              /\ status' = "Preparing video..."
              /\ job' = [job EXCEPT ![j].pc = "fetchFile", ![j].capGifUrl = gifUrl,
                                    ![j].cap = Closure,
                                    ![j].inputName = <<"input", now>>,
                                    ![j].paletteName = <<"palette", now>>,
                                    ![j].outputName = <<"output", now>>,
                                    ![j].trace = <<"validate", "ensureReady">>]
              /\ UNCHANGED listeners
         ELSE \* loadFFmpeg lines 61-68: status, listener, first toBlobURL
              /\ status' = "Loading ffmpeg core (first run can take ~30MB)..."
              /\ listeners' = listeners + 1
              /\ job' = [job EXCEPT ![j].pc = "coreURL", ![j].capGifUrl = gifUrl,
                                    ![j].cap = Closure,
                                    ![j].trace = <<"validate", "ensureReady">>]
              /\ UNCHANGED <<generating, progress>>
    /\ UNCHANGED <<loaded, file, gifUrl, created, revoked, uncaught, nPre, pre>>
    /\ UNCHANGED xvars

\* toBlobURL of ffmpeg-core.js resolves, line 68
JobCoreURLOk(j) ==
    /\ job[j].pc = "coreURL"
    /\ job' = [job EXCEPT ![j].pc = "wasmURL"]
    /\ UNCHANGED <<loaded, file, generating, progress, status, gifUrl, created,
                   revoked, listeners, uncaught, nJobs, nPre, pre>>
    /\ UNCHANGED xvars

\* toBlobURL of ffmpeg-core.wasm resolves and ffmpeg.load is called, lines 67-69
JobWasmURLOk(j) ==
    /\ job[j].pc = "wasmURL"
    /\ job' = [job EXCEPT ![j].pc = "ffmpegLoad"]
    /\ UNCHANGED <<loaded, file, generating, progress, status, gifUrl, created,
                   revoked, listeners, uncaught, nJobs, nPre, pre>>
    /\ UNCHANGED xvars

\* ffmpeg.load resolves: lines 72-73, then generateGif lines 86-95 up to fetchFile
JobLoadOk(j) ==
    /\ job[j].pc = "ffmpegLoad"
    /\ loaded' = TRUE
    /\ generating' = TRUE
    /\ progress' = 0
    /\ status' = "Preparing video..."
    /\ job' = [job EXCEPT ![j].pc = "fetchFile",
                          ![j].inputName = <<"input", now>>,
                          ![j].paletteName = <<"palette", now>>,
                          ![j].outputName = <<"output", now>>]
    /\ UNCHANGED <<file, gifUrl, created, revoked, listeners, uncaught, nJobs, nPre, pre>>
    /\ UNCHANGED xvars

\* One of the awaits of loadFFmpeg rejects: the rejection leaves loadFFmpeg
\* and reaches the catch of generateGif
JobLoadFail(j) ==
    /\ job[j].pc \in LoadPcs
    /\ CatchFinally(j, "load")
    /\ UNCHANGED <<loaded, file, progress, gifUrl, created, revoked, listeners,
                   uncaught, nJobs, nPre, pre>>
    /\ UNCHANGED xvars

\* fetchFile(file) resolves and ffmpeg.writeFile is called, line 95
FetchFileOk(j) ==
    /\ job[j].pc = "fetchFile"
    /\ job' = [job EXCEPT ![j].pc = "writeFile", ![j].trace = Append(@, "writeFile")]
    /\ UNCHANGED <<loaded, file, generating, progress, status, gifUrl, created,
                   revoked, listeners, uncaught, nJobs, nPre, pre>>
    /\ UNCHANGED xvars

\* writeFile resolves: lines 97-114, the palette exec is called
WriteFileOk(j) ==
    /\ job[j].pc = "writeFile"
    /\ status' = "Generating color palette..."
    /\ job' = [job EXCEPT ![j].pc = "execPalette", ![j].trace = Append(@, "execPalette"),
                          ![j].paletteArgs = <<PaletteArgs(job[j])>>]
    /\ UNCHANGED <<loaded, file, generating, progress, gifUrl, created,
                   revoked, listeners, uncaught, nJobs, nPre, pre>>
    /\ UNCHANGED xvars

\* A variant of ExecPaletteReturns that builds the render arguments from the
\* state hooks as they are now instead of those the invocation closed over
ExecPaletteReturnsMutant(j) ==
    /\ job[j].pc = "execPalette"
    /\ status' = "Rendering GIF..."
    /\ \E rc \in {0, 1} :
         job' = [job EXCEPT ![j].pc = "execRender", ![j].paletteRc = rc,
                            ![j].trace = Append(@, "execRender"),
                            ![j].renderArgs = <<RenderArgs([job[j] EXCEPT !.cap = Closure])>>]
    /\ UNCHANGED <<loaded, file, generating, progress, gifUrl, created,
                   revoked, listeners, uncaught, nJobs, nPre, pre>>
    /\ UNCHANGED xvars

\* The palette exec resolves with exit code rc, which line 102 discards:
\* lines 116-129, the render exec is called
ExecPaletteReturns(j) ==
    /\ job[j].pc = "execPalette"
    /\ status' = "Rendering GIF..."
    /\ \E rc \in {0, 1} :
         job' = [job EXCEPT ![j].pc = "execRender", ![j].paletteRc = rc,
                            ![j].trace = Append(@, "execRender"),
                            ![j].renderArgs = <<RenderArgs(job[j])>>]
    /\ UNCHANGED <<loaded, file, generating, progress, gifUrl, created,
                   revoked, listeners, uncaught, nJobs, nPre, pre>>
    /\ UNCHANGED xvars

\* The render exec resolves with exit code rc, which line 117 discards:
\* line 131, readFile is called
ExecRenderReturns(j) ==
    /\ job[j].pc = "execRender"
    /\ \E rc \in {0, 1} :
         job' = [job EXCEPT ![j].pc = "readFile", ![j].renderRc = rc,
                            ![j].trace = Append(@, "readFile")]
    /\ UNCHANGED <<loaded, file, generating, progress, status, gifUrl, created,
                   revoked, listeners, uncaught, nJobs, nPre, pre>>
    /\ UNCHANGED xvars

\* A variant of ReadFileOk that goes on to the cleanup without publishing
ReadFileOkMutant(j) ==
    /\ job[j].pc = "readFile"
    /\ status' = "Done. GIF size ..."
    /\ job' = [job EXCEPT ![j].pc = "deleteInput", ![j].result = "Done",
                          ![j].trace = Append(@, "deleteInput")]
    /\ UNCHANGED <<loaded, file, generating, progress, gifUrl, created, revoked,
                   listeners, uncaught, nJobs, nPre, pre>>
    /\ UNCHANGED xvars

\* A variant of ReadFileOk that revokes the URL it has just created instead
\* of the one it closed over
ReadFileOkStale(j) ==
    /\ job[j].pc = "readFile"
    /\ revoked' = IF job[j].capGifUrl # 0 THEN revoked \cup {created + 1} ELSE revoked
    /\ created' = created + 1
    /\ gifUrl' = created + 1
    /\ status' = "Done. GIF size ..."
    /\ job' = [job EXCEPT ![j].pc = "deleteInput", ![j].result = "Done",
                          ![j].trace = Append(Append(@, "publish"), "deleteInput")]
    /\ UNCHANGED <<loaded, file, generating, progress, listeners, uncaught,
                   nJobs, nPre, pre>>
    /\ UNCHANGED xvars

\* readFile resolves: lines 132-140, the Result is published and
\* deleteFile(inputName) is called.  gifUrl is the value of the render in
\* which this invocation was created.
ReadFileOk(j) ==
    /\ job[j].pc = "readFile"
    /\ revoked' = IF job[j].capGifUrl # 0 THEN revoked \cup {job[j].capGifUrl} ELSE revoked
    /\ created' = created + 1
    /\ gifUrl' = created + 1
    /\ status' = "Done. GIF size ..."
    /\ job' = [job EXCEPT ![j].pc = "deleteInput", ![j].result = "Done",
                          ![j].trace = Append(Append(@, "publish"), "deleteInput")]
    /\ UNCHANGED <<loaded, file, generating, progress, listeners, uncaught,
                   nJobs, nPre, pre>>
    /\ UNCHANGED xvars

\* deleteFile(inputName) resolves, line 141
DeleteInputOk(j) ==
    /\ job[j].pc = "deleteInput"
    /\ job' = [job EXCEPT ![j].pc = "deletePalette", ![j].trace = Append(@, "deletePalette")]
    /\ UNCHANGED <<loaded, file, generating, progress, status, gifUrl, created,
                   revoked, listeners, uncaught, nJobs, nPre, pre>>
    /\ UNCHANGED xvars

\* deleteFile(paletteName) resolves, line 142
DeletePaletteOk(j) ==
    /\ job[j].pc = "deletePalette"
    /\ job' = [job EXCEPT ![j].pc = "deleteOutput", ![j].trace = Append(@, "deleteOutput")]
    /\ UNCHANGED <<loaded, file, generating, progress, status, gifUrl, created,
                   revoked, listeners, uncaught, nJobs, nPre, pre>>
    /\ UNCHANGED xvars

\* deleteFile(outputName) resolves: the try block ends, finally runs, line 147
DeleteOutputOk(j) ==
    /\ job[j].pc = "deleteOutput"
    /\ generating' = FALSE
    /\ job' = [job EXCEPT ![j].pc = "done"]
    /\ UNCHANGED <<loaded, file, progress, status, gifUrl, created,
                   revoked, listeners, uncaught, nJobs, nPre, pre>>
    /\ UNCHANGED xvars

\* fetchFile or an engine call of lines 95-142 rejects
JobOpFail(j) ==
    /\ job[j].pc \in EnginePcs \cup {"fetchFile"}
    /\ CatchFinally(j, job[j].pc)
    /\ UNCHANGED <<loaded, file, progress, gifUrl, created, revoked, listeners,
                   uncaught, nJobs, nPre, pre>>
    /\ UNCHANGED xvars

----------------------------------------------------------------------------
\* Click on Preload ffmpeg, line 312; the button is enabled iff !loaded.
\* loadFFmpeg lines 59-68 up to the first toBlobURL.
PreloadClick(k) ==
    /\ k = nPre + 1
    /\ ~loaded
    /\ nPre' = k
    /\ status' = "Loading ffmpeg core (first run can take ~30MB)..."
    /\ listeners' = listeners + 1
    /\ pre' = [pre EXCEPT ![k] = "coreURL"]
    /\ UNCHANGED <<loaded, file, generating, progress, gifUrl, created, revoked,
                   uncaught, nJobs, job>>
    /\ UNCHANGED xvars

PreCoreURLOk(k) ==
    /\ pre[k] = "coreURL"
    /\ pre' = [pre EXCEPT ![k] = "wasmURL"]
    /\ UNCHANGED <<loaded, file, generating, progress, status, gifUrl, created,
                   revoked, listeners, uncaught, nJobs, job, nPre>>
    /\ UNCHANGED xvars

PreWasmURLOk(k) ==
    /\ pre[k] = "wasmURL"
    /\ pre' = [pre EXCEPT ![k] = "ffmpegLoad"]
    /\ UNCHANGED <<loaded, file, generating, progress, status, gifUrl, created,
                   revoked, listeners, uncaught, nJobs, job, nPre>>
    /\ UNCHANGED xvars

\* ffmpeg.load resolves, lines 72-73
PreLoadOk(k) ==
    /\ pre[k] = "ffmpegLoad"
    /\ loaded' = TRUE
    /\ status' = "ffmpeg loaded. Ready to generate."
    /\ pre' = [pre EXCEPT ![k] = "resolved"]
    /\ UNCHANGED <<file, generating, progress, gifUrl, created,
                   revoked, listeners, uncaught, nJobs, job, nPre>>
    /\ UNCHANGED xvars

\* An await of loadFFmpeg rejects: the promise returned to onClick rejects
\* and nothing handles it
PreLoadFail(k) ==
    /\ pre[k] \in LoadPcs
    /\ uncaught' = uncaught + 1
    /\ pre' = [pre EXCEPT ![k] = "rejected"]
    /\ UNCHANGED <<loaded, file, generating, progress, status, gifUrl, created,
                   revoked, listeners, nJobs, job, nPre>>
    /\ UNCHANGED xvars

----------------------------------------------------------------------------
(* The settings panel, lines 188-301.  Number(e.target.value) of a number  *)
(* input is whatever number was typed: the min, max and step attributes    *)
(* only mark the field invalid.                                            *)

FpsInputs == {0, 12500, 30000}
WidthInputs == {-120000, 480000}
ColorsInputs == {0, 64000, 500000}
DitherInputs == {"none", "floyd_steinberg"}
StartInputs == {-1000, 1234, 2000}
DurationInputs == {50, 256, 3000}
SpeedInputs == {1000, 2000}
LoopInputs == {0, 3}

\* applyPreset, lines 51-57
applyPreset(next) ==
    /\ nEdits < MaxEdits
    /\ nEdits' = nEdits + 1
    /\ preset' = next
    /\ fps' = PRESETS[next].fps
    /\ width' = PRESETS[next].width
    /\ colors' = PRESETS[next].colors
    /\ dither' = PRESETS[next].dither
    /\ UNCHANGED <<startSec, durationSec, loopCount, speed, PRESETS, now>>
    /\ UNCHANGED <<loaded, file, generating, progress, status, gifUrl, created, revoked,
                   listeners, uncaught, nJobs, job, nPre, pre>>

\* A variant of setFps that writes through to the preset table
setFpsMutant(v) ==
    /\ nEdits < MaxEdits
    /\ nEdits' = nEdits + 1
    /\ fps' = v
    /\ PRESETS' = [PRESETS EXCEPT ![preset].fps = v]
    /\ UNCHANGED <<preset, width, colors, dither, startSec, durationSec, loopCount,
                   speed, now>>
    /\ UNCHANGED <<loaded, file, generating, progress, status, gifUrl, created, revoked,
                   listeners, uncaught, nJobs, job, nPre, pre>>

\* The FPS field, line 224
setFps(v) ==
    /\ nEdits < MaxEdits
    /\ nEdits' = nEdits + 1
    /\ fps' = v
    /\ UNCHANGED <<preset, width, colors, dither, startSec, durationSec, loopCount,
                   speed, PRESETS, now>>
    /\ UNCHANGED <<loaded, file, generating, progress, status, gifUrl, created, revoked,
                   listeners, uncaught, nJobs, job, nPre, pre>>

\* The Width field, line 237
setWidth(v) ==
    /\ nEdits < MaxEdits
    /\ nEdits' = nEdits + 1
    /\ width' = v
    /\ UNCHANGED <<preset, fps, colors, dither, startSec, durationSec, loopCount,
                   speed, PRESETS, now>>
    /\ UNCHANGED <<loaded, file, generating, progress, status, gifUrl, created, revoked,
                   listeners, uncaught, nJobs, job, nPre, pre>>

\* The Colors field, line 249
setColors(v) ==
    /\ nEdits < MaxEdits
    /\ nEdits' = nEdits + 1
    /\ colors' = v
    /\ UNCHANGED <<preset, fps, width, dither, startSec, durationSec, loopCount,
                   speed, PRESETS, now>>
    /\ UNCHANGED <<loaded, file, generating, progress, status, gifUrl, created, revoked,
                   listeners, uncaught, nJobs, job, nPre, pre>>

\* The Dither select, line 206
setDither(d) ==
    /\ nEdits < MaxEdits
    /\ nEdits' = nEdits + 1
    /\ dither' = d
    /\ UNCHANGED <<preset, fps, width, colors, startSec, durationSec, loopCount,
                   speed, PRESETS, now>>
    /\ UNCHANGED <<loaded, file, generating, progress, status, gifUrl, created, revoked,
                   listeners, uncaught, nJobs, job, nPre, pre>>

\* The Speed field, line 262
setSpeed(v) ==
    /\ nEdits < MaxEdits
    /\ nEdits' = nEdits + 1
    /\ speed' = v
    /\ UNCHANGED <<preset, fps, width, colors, dither, startSec, durationSec,
                   loopCount, PRESETS, now>>
    /\ UNCHANGED <<loaded, file, generating, progress, status, gifUrl, created, revoked,
                   listeners, uncaught, nJobs, job, nPre, pre>>

\* The Start field, line 274
setStartSec(v) ==
    /\ nEdits < MaxEdits
    /\ nEdits' = nEdits + 1
    /\ startSec' = v
    /\ UNCHANGED <<preset, fps, width, colors, dither, durationSec, loopCount,
                   speed, PRESETS, now>>
    /\ UNCHANGED <<loaded, file, generating, progress, status, gifUrl, created, revoked,
                   listeners, uncaught, nJobs, job, nPre, pre>>

\* The Duration field, line 286
setDurationSec(v) ==
    /\ nEdits < MaxEdits
    /\ nEdits' = nEdits + 1
    /\ durationSec' = v
    /\ UNCHANGED <<preset, fps, width, colors, dither, startSec, loopCount,
                   speed, PRESETS, now>>
    /\ UNCHANGED <<loaded, file, generating, progress, status, gifUrl, created, revoked,
                   listeners, uncaught, nJobs, job, nPre, pre>>

\* The Loop count field, line 297
setLoopCount(v) ==
    /\ nEdits < MaxEdits
    /\ nEdits' = nEdits + 1
    /\ loopCount' = v
    /\ UNCHANGED <<preset, fps, width, colors, dither, startSec, durationSec,
                   speed, PRESETS, now>>
    /\ UNCHANGED <<loaded, file, generating, progress, status, gifUrl, created, revoked,
                   listeners, uncaught, nJobs, job, nPre, pre>>

\* The millisecond clock read by Date.now(), lines 91-93, advances
Tick ==
    /\ now < MaxClock
    /\ now' = now + 1
    /\ UNCHANGED <<preset, fps, width, colors, dither, startSec, durationSec,
                   loopCount, speed, PRESETS, nEdits>>
    /\ UNCHANGED <<loaded, file, generating, progress, status, gifUrl, created, revoked,
                   listeners, uncaught, nJobs, job, nPre, pre>>

----------------------------------------------------------------------------
Next ==
    \/ SetFile
    \/ ProgressEvent
    \/ GenerateGifNoFile
    \/ \E j \in Jobs : GenerateGif(j)
    \/ \E j \in Jobs : JobCoreURLOk(j)
    \/ \E j \in Jobs : JobWasmURLOk(j)
    \/ \E j \in Jobs : JobLoadOk(j)
    \/ \E j \in Jobs : JobLoadFail(j)
    \/ \E j \in Jobs : FetchFileOk(j)
    \/ \E j \in Jobs : WriteFileOk(j)
    \/ \E j \in Jobs : ExecPaletteReturns(j)
    \/ \E j \in Jobs : ExecRenderReturns(j)
    \/ \E j \in Jobs : ReadFileOk(j)
    \/ \E j \in Jobs : DeleteInputOk(j)
    \/ \E j \in Jobs : DeletePaletteOk(j)
    \/ \E j \in Jobs : DeleteOutputOk(j)
    \/ \E j \in Jobs : JobOpFail(j)
    \/ \E k \in Preloads : PreloadClick(k)
    \/ \E k \in Preloads : PreCoreURLOk(k)
    \/ \E k \in Preloads : PreWasmURLOk(k)
    \/ \E k \in Preloads : PreLoadOk(k)
    \/ \E k \in Preloads : PreLoadFail(k)

Spec == Init /\ [][Next]_vars

\* The pipeline with a clock that advances
NextClock ==
    \/ Tick
    \/ SetFile
    \/ \E j \in Jobs : GenerateGif(j)
    \/ \E j \in Jobs : JobCoreURLOk(j)
    \/ \E j \in Jobs : JobWasmURLOk(j)
    \/ \E j \in Jobs : JobLoadOk(j)
    \/ \E j \in Jobs : JobLoadFail(j)
    \/ \E j \in Jobs : FetchFileOk(j)
    \/ \E j \in Jobs : WriteFileOk(j)
    \/ \E j \in Jobs : ExecPaletteReturns(j)
    \/ \E j \in Jobs : ExecRenderReturns(j)
    \/ \E j \in Jobs : ReadFileOk(j)
    \/ \E j \in Jobs : DeleteInputOk(j)
    \/ \E j \in Jobs : DeletePaletteOk(j)
    \/ \E j \in Jobs : DeleteOutputOk(j)
    \/ \E j \in Jobs : JobOpFail(j)
    \/ \E k \in Preloads : PreloadClick(k)
    \/ \E k \in Preloads : PreCoreURLOk(k)
    \/ \E k \in Preloads : PreWasmURLOk(k)
    \/ \E k \in Preloads : PreLoadOk(k)
    \/ \E k \in Preloads : PreLoadFail(k)

SpecClock == Init /\ [][NextClock]_vars

\* One conversion, with the settings panel edited before and while it runs:
\* the argument lists of an invocation depend on its own closure only
NextArgs ==
    \/ \E p \in PresetKey : applyPreset(p)
    \/ \E v \in FpsInputs : setFps(v)
    \/ \E v \in WidthInputs : setWidth(v)
    \/ \E v \in ColorsInputs : setColors(v)
    \/ \E d \in DitherInputs : setDither(d)
    \/ \E v \in SpeedInputs : setSpeed(v)
    \/ \E v \in StartInputs : setStartSec(v)
    \/ \E v \in DurationInputs : setDurationSec(v)
    \/ \E v \in LoopInputs : setLoopCount(v)
    \/ SetFile
    \/ GenerateGif(1)
    \/ JobCoreURLOk(1)
    \/ JobWasmURLOk(1)
    \/ JobLoadOk(1)
    \/ JobLoadFail(1)
    \/ FetchFileOk(1)
    \/ WriteFileOk(1)
    \/ ExecPaletteReturns(1)
    \/ ExecRenderReturns(1)
    \/ ReadFileOk(1)
    \/ DeleteInputOk(1)
    \/ DeletePaletteOk(1)
    \/ DeleteOutputOk(1)
    \/ JobOpFail(1)

SpecArgs == Init /\ [][NextArgs]_vars

TypeOK ==
    /\ loaded \in BOOLEAN /\ file \in BOOLEAN /\ generating \in BOOLEAN
    /\ progress \in 0..100
    /\ gifUrl \in 0..created
    /\ created \in 0..MaxJobs
    /\ revoked \subseteq 1..created
    /\ nJobs \in 0..MaxJobs /\ nPre \in 0..MaxPreloads

----------------------------------------------------------------------------
(* Properties *)

DeleteOps == {"deleteInput", "deletePalette", "deleteOutput"}

Issued(j, op) == Count(job[j].trace, op)

Ended(j) == job[j].pc = "done"

\* A job no call of which rejected and both of whose passes returned 0
Succeeded(j) ==
    /\ Ended(j)
    /\ job[j].failedOp = "none"
    /\ job[j].paletteRc = 0
    /\ job[j].renderRc = 0

\* C1: a job that ended because the palette exec, the render exec or the
\* output read failed has attempted deleteFile exactly once for each of its
\* three artifacts.
C1_CleanupOnFailure ==
    \A j \in Jobs :
        (Ended(j) /\ job[j].failedOp \in {"execPalette", "execRender", "readFile"})
            => \A d \in DeleteOps : Issued(j, d) = 1

\* C2: a job whose palette pass, render pass and output read all succeeded
\* ends with the success outcome, whatever its deleteFile calls do.
C2_CleanupFailureSwallowed ==
    \A j \in Jobs :
        (Ended(j) /\ job[j].paletteRc = 0 /\ job[j].renderRc = 0 /\ Issued(j, "publish") = 1)
            => job[j].result = "Done"

\* C3: at most one generateGif invocation is between its start and its end.
C3_OneActiveJob ==
    Cardinality({j \in Jobs : job[j].pc \notin {"idle", "done"}}) <= 1

\* C4: at most one ffmpeg.load call is in flight.
C4_SingleFlightLoad ==
    Cardinality({j \in Jobs : job[j].pc = "ffmpegLoad"})
        + Cardinality({k \in Preloads : pre[k] = "ffmpegLoad"}) <= 1

\* C5: once a Result has been published, exactly one object URL is live and
\* all earlier ones have been revoked.
C5_OneLiveHandle ==
    created >= 1 =>
        /\ Cardinality((1..created) \ revoked) = 1
        /\ Cardinality(revoked) = created - 1

\* The order of §4.5 of the specification: cleanup, then publish
SpecOrder == <<"validate", "ensureReady", "writeFile", "execPalette", "execRender",
               "readFile", "deleteInput", "deletePalette", "deleteOutput", "publish">>

\* The order of lines 79-142: publish, then cleanup
CodeOrder == <<"validate", "ensureReady", "writeFile", "execPalette", "execRender",
               "readFile", "publish", "deleteInput", "deletePalette", "deleteOutput">>

IsPrefix(s, t) == Len(s) <= Len(t) /\ \A i \in 1..Len(s) : s[i] = t[i]

C7_EveryFailureCaught ==
    /\ uncaught = 0
    /\ \A j \in Jobs : job[j].failedOp # "none" => job[j].result = "Failed"

\* C8: a job whose palette exec threw or returned a non-zero exit code issues
\* neither the render exec nor the output read and publishes nothing.
C8_PaletteFailureShortCircuits ==
    \A j \in Jobs :
        (job[j].paletteRc = 1 \/ job[j].failedOp = "execPalette")
            => /\ Issued(j, "execRender") = 0
               /\ Issued(j, "readFile") = 0
               /\ Issued(j, "publish") = 0

\* C9: the step in which a job's engine load fails ends the job with no
\* writeFile, exec, readFile or deleteFile issued and leaves the engine
\* session not Ready.
C9_LoadFailureLeavesNotReady ==
    [][\A j \in Jobs :
          (job[j].pc \in LoadPcs /\ job'[j].pc = "done")
              => /\ job'[j].trace = <<"validate", "ensureReady">>
                 /\ ~loaded']_vars

\* C10: a generateGif invocation without a file changes the status text and
\* nothing else: no engine call is issued, no listener registered, and
\* loaded, generating, progress and gifUrl stay as they were.
C10_NoFileOnlyStatus ==
    [][(status' = "Choose a video file first." /\ status' # status)
          => UNCHANGED <<loaded, file, generating, progress, gifUrl, created, revoked,
                         listeners, uncaught, nJobs, job, nPre, pre>>]_vars

C10_Witness ==
    /\ status = "Choose a video file first."
    /\ loaded
    /\ gifUrl # 0
    /\ progress > 0

\* C11: once loaded is true it stays true, and a loadFFmpeg call made from
\* then on (by a new generateGif invocation or a Preload click) registers no
\* listener, does not set the loading status and never reaches toBlobURL or
\* ffmpeg.load.
C11_ReadyIsStable ==
    [][loaded =>
          /\ loaded'
          /\ (nJobs' # nJobs \/ nPre' # nPre) =>
                /\ listeners' = listeners
                /\ status' # "Loading ffmpeg core (first run can take ~30MB)..."
                /\ \A j \in Jobs : job'[j].pc \in LoadPcs => job[j].pc \in LoadPcs
                /\ \A k \in Preloads : pre'[k] \in LoadPcs => pre[k] \in LoadPcs]_vars

\* The Preload click loaded the engine and registered the only listener, so
\* the generateGif invocation was made with loaded = true
C11_Witness ==
    /\ loaded
    /\ nPre = 1 /\ pre[1] = "resolved"
    /\ nJobs = 1 /\ job[1].pc = "fetchFile"
    /\ listeners = 1

\* C16: the progress value is within [0,1] (0..100 hundredths) in every
\* reachable state.
C16_ProgressInRange == progress >= 0 /\ progress <= 100

C16_Witness ==
    /\ progress = 100
    /\ \E j \in Jobs : job[j].pc \in {"execPalette", "execRender"}

\* C18: whenever a writeFile, exec, readFile or deleteFile of a job is in
\* flight, generating is true.
C18_GeneratingWhileBusy ==
    (\E j \in Jobs : job[j].pc \in EnginePcs) => generating

\* C19: at most one 'progress' listener is registered on the FFmpeg instance.
C19_OneProgressListener == listeners <= 1

\* C20: the handle shown in the preview and the download link is not a
\* revoked object URL.
C20_ShownHandleLive == gifUrl # 0 => gifUrl \notin revoked

\* A second Result has replaced, and revoked, an earlier one
C20_Witness == gifUrl # 0 /\ revoked # {}

\* C12: the render pass of a job receives the -ss and -t values and the
\* fps/scale/setpts filter prefix that its palette pass received, and the
\* setpts clause is there iff the job's speed is not 1, whatever was edited
\* in the settings panel meanwhile.
C12_SameWindowBothPasses ==
    \A j \in Jobs :
        job[j].renderArgs # <<>> =>
            LET pa == job[j].paletteArgs[1]
                ra == job[j].renderArgs[1]
            IN  /\ ra.trim = pa.trim
                /\ ra.lavfi = pa.vf
                /\ (pa.vf.setpts # <<>>) <=> (job[j].cap.speed # 1000)

\* The render exec has been called after the trim window and the frame rate
\* were edited under the running job
C12_Witness ==
    \E j \in Jobs :
        /\ job[j].renderArgs # <<>>
        /\ startSec # job[j].cap.startSec
        /\ fps # job[j].cap.fps

Allocated(j) == job[j].inputName # <<>>

NamesOf(j) == {job[j].inputName, job[j].paletteName, job[j].outputName}

\* C13: no artifact name allocated by one generateGif invocation is a name
\* allocated by another.
C13_NamesUnique ==
    \A i, j \in Jobs :
        (i # j /\ Allocated(i) /\ Allocated(j)) => NamesOf(i) \cap NamesOf(j) = {}

ArgLists(j) ==
    {a.vf : a \in {job[j].paletteArgs[n] : n \in DOMAIN job[j].paletteArgs}}
        \cup {a.lavfi : a \in {job[j].renderArgs[n] : n \in DOMAIN job[j].renderArgs}}

\* C14: in every argument list passed to the engine the fps and width values
\* of the filter are positive integers.
C14_PositiveIntegerRates ==
    \A j \in Jobs : \A f \in ArgLists(j) :
        /\ f.fps > 0 /\ f.fps % 1000 = 0
        /\ f.width > 0 /\ f.width % 1000 = 0

TrimLists(j) ==
    {job[j].paletteArgs[n].trim : n \in DOMAIN job[j].paletteArgs}
        \cup {job[j].renderArgs[n].trim : n \in DOMAIN job[j].renderArgs}

\* The colors input clamped into [2,256]
ClampedColors(j) ==
    IF job[j].cap.colors < 2000 THEN 2000
    ELSE IF job[j].cap.colors > 256000 THEN 256000 ELSE job[j].cap.colors

\* max(0.2, durationSec) and max(0, startSec), in thousandths
FlooredDuration(j) == IF job[j].cap.durationSec < 200 THEN 200 ELSE job[j].cap.durationSec
FlooredStart(j) == IF job[j].cap.startSec < 0 THEN 0 ELSE job[j].cap.startSec

\* C15 (as stated): max_colors is the colors input clamped into [2,256], the
\* -t value equals max(0.2, durationSec) and the -ss value equals
\* max(0, startSec).
C15_ExactValues ==
    \A j \in Jobs :
        /\ \A n \in DOMAIN job[j].paletteArgs :
              job[j].paletteArgs[n].max_colors = ClampedColors(j)
        /\ \A tr \in TrimLists(j) :
              /\ tr.t * 10 = FlooredDuration(j)
              /\ tr.ss * 10 = FlooredStart(j)

\* C15 (amended): max_colors is the colors input clamped into [2,256]; the -t
\* value is max(0.2, durationSec) and the -ss value is max(0, startSec), each
\* rounded to two decimals: a multiple of 0.01 that is at least 0.20
\* (respectively 0.00) and differs from the exact value by at most 0.005.
C15_RoundedValues ==
    \A j \in Jobs :
        /\ \A n \in DOMAIN job[j].paletteArgs :
              job[j].paletteArgs[n].max_colors = ClampedColors(j)
        /\ \A tr \in TrimLists(j) :
              /\ tr.t >= 20
              /\ tr.t * 10 - FlooredDuration(j) \in -5..5
              /\ tr.ss >= 0
              /\ tr.ss * 10 - FlooredStart(j) \in -5..5

\* A job ran with a duration below the floor and a colour count above the
\* ceiling
C15_Witness ==
    \E j \in Jobs :
        /\ job[j].renderArgs # <<>>
        /\ job[j].cap.durationSec = 50
        /\ job[j].cap.colors = 500000

\* C17: whatever was applied or overridden before, applyPreset(p) sets fps,
\* width, colors and dither to the values preset p has in the source, and
\* these have fps > 0, width > 0 and colors in [2,256].
C17_PresetTableUntouched ==
    [][\A p \in PresetKey :
          applyPreset(p) =>
              /\ fps' = PresetTable[p].fps
              /\ width' = PresetTable[p].width
              /\ colors' = PresetTable[p].colors
              /\ dither' = PresetTable[p].dither
              /\ fps' > 0 /\ width' > 0
              /\ colors' >= 2000 /\ colors' <= 256000]_vars

\* Two edits were made, one of them applyPreset('compact'), and the four
\* fields hold the values of compact (no override input has these values)
C17_Witness ==
    /\ nEdits = 2
    /\ preset = "compact"
    /\ fps = 12000 /\ width = 720000 /\ colors = 128000 /\ dither = "bayer"
====
